---------------------------- MODULE Spec2Model ----------------------------
(***************************************************************************)
(* Model of docs/examples/simple-workflow.py: the DifyWorkflowExample      *)
(* client (create_simple_app, configure_model, send_message) and main(),   *)
(* which sequences them inside one try/except.                             *)
(*                                                                         *)
(* The remote service is the environment: every HTTP call either raises    *)
(* (connection error) or answers with a status code and a body, and        *)
(* response.json() either raises or yields a JSON value, which need not be *)
(* an object.                                                              *)
(***************************************************************************)
EXTENDS Integers, Sequences, FiniteSets, TLC

(***************************************************************************)
(* Bounds of the environment.                                              *)
(***************************************************************************)
\* number of distinct string identifiers the service may hand out
MaxIds == 2
\* number of 2xx status codes above 201 the service may answer with
MaxOther2xx == 1

(***************************************************************************)
(* Status codes the script compares against.                               *)
(***************************************************************************)
HTTP_CREATED == 201
HTTP_OK == 200

(***************************************************************************)
(* JSON values as Python sees them after response.json().  Every value is  *)
(* a record of the same shape: kind, text (the literal of a scalar),       *)
(* fields (the <<key, kind, text>> members of an object, scalar-valued)    *)
(* and elems (the string items of an array).                               *)
(***************************************************************************)
J(k, t, f, e) == [kind |-> k, text |-> t, fields |-> f, elems |-> e]

JNull == J("null", "null", {}, <<>>)
JBool(b) == J("bool", IF b THEN "true" ELSE "false", {}, <<>>)
JNum(t) == J("num", t, {}, <<>>)
JStr(t) == J("str", t, {}, <<>>)
JList(e) == J("list", "", {}, e)
JDict(f) == J("dict", "", f, <<>>)

\* the literal {} returned by create_simple_app and send_message on failure
EmptyDict == JDict({})
\* a local variable that has not been assigned yet
Unset == J("unset", "", {}, <<>>)
\* the outcome of response.json() on a body that is not JSON
Undecodable == J("undecodable", "", {}, <<>>)

\* a member <<k, kind, text>> of an object, holding the scalar v under key k
Member(k, v) == <<k, v.kind, v.text>>

Keys(v) == {m[1] : m \in v.fields}

\* v is a JSON object that has key
HasKey(v, key) == v.kind = "dict" /\ key \in Keys(v)

(***************************************************************************)
(* Python semantics of the three operations main() applies to a decoded    *)
(* body: truth value, `key in v`, and v[key].                              *)
(***************************************************************************)
\* bool(v): empty containers, "", 0, False and None are falsy
Truthy(v) ==
    CASE v.kind = "dict" -> v.fields # {}
      [] v.kind = "list" -> v.elems # <<>>
      [] v.kind = "str"  -> v.text # ""
      [] v.kind = "num"  -> v.text # "0"
      [] v.kind = "bool" -> v.text = "true"
      [] OTHER           -> FALSE

\* the strings the service may answer with, and which of them contain which key
StrSamples == {"", "ok", "the answer"}
IsSubstring(key, s) == <<key, s>> \in {<<"answer", "the answer">>}

\* `key in v` raises TypeError on values that are not iterable
InRaises(v) == v.kind \in {"num", "bool", "null"}

\* `key in v` on a dict (key test), a list (membership) or a str (substring)
In(key, v) ==
    CASE v.kind = "dict" -> key \in Keys(v)
      [] v.kind = "list" -> \E n \in 1..Len(v.elems) : v.elems[n] = key
      [] v.kind = "str"  -> IsSubstring(key, v.text)
      [] OTHER           -> FALSE

\* the exception v[key] raises, or "none"
IndexRaises(v, key) ==
    CASE v.kind = "dict" -> IF key \in Keys(v) THEN "none" ELSE "KeyError"
      [] OTHER           -> "TypeError"

\* v[key] for a dict v that holds key
Index(v, key) ==
    LET m == CHOOSE x \in v.fields : x[1] = key
    IN  J(m[2], m[3], {}, <<>>)

\* f"{v}" of a scalar, as interpolated into a URL
Format(v) ==
    CASE v.kind = "null" -> "None"
      [] v.kind = "bool" -> IF v.text = "true" THEN "True" ELSE "False"
      [] OTHER           -> v.text


(***************************************************************************)
(* The environment: what one HTTP call can come back with.                 *)
(***************************************************************************)
IdStrings == {"app" \o ToString(n) : n \in 1..MaxIds}
\* values the service may put under "id": strings, a number, null
IdValues == {JStr(s) : s \in IdStrings} \cup {JNum("7"), JNull}

JsonObjects ==
    {EmptyDict, JDict({Member("name", JStr("ok"))}),
     JDict({Member("answer", JStr("ok"))}),
     JDict({Member("id", JStr("app1")), Member("answer", JStr("ok"))})}
      \cup {JDict({Member("id", v)}) : v \in IdValues}

JsonNonObjects ==
    {JNull, JBool(FALSE), JBool(TRUE), JNum("0"), JNum("7"),
     JList(<<>>), JList(<<"ok">>), JList(<<"answer">>)}
      \cup {JStr(s) : s \in StrSamples}

\* every outcome of response.json()
JsonOutcomes == JsonObjects \cup JsonNonObjects \cup {Undecodable}

StatusCodes ==
    {HTTP_OK, HTTP_CREATED, 404}
      \cup {HTTP_CREATED + n : n \in 1..MaxOther2xx}

\* requests.post / requests.put raised instead of returning a response
ConnectionFailed == [raised |-> TRUE, status_code |-> 0, json |-> Undecodable]

Responses ==
    [raised : {FALSE}, status_code : StatusCodes, json : JsonOutcomes]

Transport == Responses \cup {ConnectionFailed}

(***************************************************************************)
(* DifyWorkflowExample.                                                    *)
(***************************************************************************)
DifyWorkflowExample(api_key) ==
    [api_key  |-> api_key,
     base_url |-> "http://localhost:5001",
     headers  |-> [Authorization |-> "Bearer " \o api_key,
                   ContentType   |-> "application/json"]]

\* what a method call gives back to main(): the exception that escaped it
\* ("none" if it returned), its return value, and what it printed
Returned(v, printed) == [exc |-> "none", ret |-> v, out |-> printed]
Raised(e, printed) == [exc |-> e, ret |-> Unset, out |-> printed]

\* the request create_simple_app sends
create_simple_app_request(self) ==
    [method |-> "POST",
     url     |-> self.base_url \o "/v1/apps",
     headers |-> self.headers,
     json    |-> [name |-> "Simple Tutorial Bot",
                  description |-> "A basic chatbot for learning Dify workflows",
                  mode |-> "chat",
                  icon |-> "robot",  \* the robot emoji of line 36
                  icon_background |-> "#3B82F6"]]

\* create_simple_app as it would be if it compared the status with 200
create_simple_app_Expects200(self, r) ==
    IF r.raised THEN Raised("ConnectionError", <<>>)
    ELSE IF r.status_code = HTTP_OK
         THEN IF r.json = Undecodable
              THEN Raised("JSONDecodeError", <<"app_created">>)
              ELSE Returned(r.json, <<"app_created">>)
         ELSE Returned(EmptyDict, <<"error_creating_app">>)

\* create_simple_app, given what the POST came back with
create_simple_app(self, r) ==
    IF r.raised THEN Raised("ConnectionError", <<>>)
    ELSE IF r.status_code = HTTP_CREATED
         THEN IF r.json = Undecodable
              THEN Raised("JSONDecodeError", <<"app_created">>)
              ELSE Returned(r.json, <<"app_created">>)
         ELSE Returned(EmptyDict, <<"error_creating_app">>)

\* the configure request as it would be without the f prefix on the URL
configure_model_request_NoFString(self, app_id) ==
    [method |-> "PUT",
     url     |-> self.base_url \o "/v1/apps/" \o "{app_id}" \o "/model-config",
     headers |-> self.headers,
     json    |-> [provider |-> "openai",
                  model |-> "gpt-3.5-turbo",
                  parameters |-> [temperature |-> "0.7",
                                  max_tokens |-> "1000",
                                  top_p |-> "1.0",
                                  frequency_penalty |-> "0.0",
                                  presence_penalty |-> "0.0"]]]

\* the request configure_model sends
configure_model_request(self, app_id) ==
    [method |-> "PUT",
     url     |-> self.base_url \o "/v1/apps/" \o Format(app_id) \o "/model-config",
     headers |-> self.headers,
     json    |-> [provider |-> "openai",
                  model |-> "gpt-3.5-turbo",
                  parameters |-> [temperature |-> "0.7",
                                  max_tokens |-> "1000",
                                  top_p |-> "1.0",
                                  frequency_penalty |-> "0.0",
                                  presence_penalty |-> "0.0"]]]

\* configure_model as it would be if it returned response.ok (any 2xx)
configure_model_Any2xx(self, app_id, r) ==
    IF r.raised THEN Raised("ConnectionError", <<>>)
    ELSE Returned(JBool(r.status_code >= 200 /\ r.status_code < 300), <<>>)

\* configure_model, given what the PUT came back with
configure_model(self, app_id, r) ==
    IF r.raised THEN Raised("ConnectionError", <<>>)
    ELSE Returned(JBool(r.status_code = HTTP_OK), <<>>)

\* the request send_message sends
send_message_request(self, app_id, message, user_id) ==
    [method |-> "POST",
     url     |-> self.base_url \o "/v1/apps/" \o Format(app_id) \o "/chat-messages",
     headers |-> self.headers,
     json    |-> [query |-> message,
                  user |-> user_id,
                  conversation_id |-> "",
                  inputs |-> EmptyDict]]

\* send_message as it would be without the status check
send_message_Unchecked(self, app_id, message, user_id, r) ==
    IF r.raised THEN Raised("ConnectionError", <<>>)
    ELSE IF r.json = Undecodable
         THEN Raised("JSONDecodeError", <<>>)
         ELSE Returned(r.json, <<>>)

\* send_message, given what the POST came back with
send_message(self, app_id, message, user_id, r) ==
    IF r.raised THEN Raised("ConnectionError", <<>>)
    ELSE IF r.status_code = HTTP_OK
         THEN IF r.json = Undecodable
              THEN Raised("JSONDecodeError", <<>>)
              ELSE Returned(r.json, <<>>)
         ELSE Returned(EmptyDict, <<"error_sending_message">>)

(***************************************************************************)
(* main().                                                                 *)
(***************************************************************************)
VARIABLES
    pc,         \* the line main() is at: "L126", "L128", "L137", "L152",
                \* "L157", "L162", "L165" (the except clause), "done" (main
                \* returned) or "propagated" (an exception left main)
    app_data,   \* main's app_data
    app_id,     \* main's app_id
    configured, \* what configure_model returned on line 137
    i,          \* position of the for loop in test_messages
    response,   \* main's response
    exc,        \* the exception raised inside the try block, or "none"
    caught,     \* how many times the except clause ran
    out,        \* what was printed, as a sequence of tags
    calls,      \* the HTTP requests issued so far, in order
    answers,    \* for each request, the status code it was answered with
                \* (0: the call raised instead)
    http        \* what the latest HTTP call came back with

vars == <<pc, app_data, app_id, configured, i, response, exc, caught, out,
          calls, answers, http>>

api_key == "your-api-key-here"
dify == DifyWorkflowExample(api_key)

test_messages ==
    <<"Hello! What can you help me with?",
      "Explain what Dify is in simple terms",
      "What are the main components of Dify's architecture?">>

\* the exceptions that can arise in the try block; all derive from Exception
Exceptions == {"ConnectionError", "JSONDecodeError", "KeyError", "TypeError"}

\* `except requests.RequestException as e` would handle e
Catches_RequestErrorsOnly(e) == e \in {"ConnectionError", "JSONDecodeError"}

\* `except Exception as e` handles e
Catches(e) == e \in Exceptions

\* an exception e is raised at the current line, after printing `printed`
Throw(e, printed) ==
    /\ exc' = e
    /\ out' = out \o printed
    /\ pc' = IF Catches(e) THEN "L165" ELSE "propagated"

Init ==
    /\ pc = "L126"
    /\ app_data = Unset
    /\ app_id = Unset
    /\ configured = Unset
    /\ i = 1
    /\ response = Unset
    /\ exc = "none"
    /\ caught = 0
    /\ out = <<>>
    /\ calls = <<>>
    /\ answers = <<>>
    /\ http = ConnectionFailed

\* lines 125-126: app_data = dify.create_simple_app()
CallCreate ==
    /\ pc = "L126"
    /\ \E r \in Transport :
         LET res == create_simple_app(dify, r) IN
         /\ calls' = Append(calls, create_simple_app_request(dify))
         /\ answers' = Append(answers, r.status_code)
         /\ http' = r
         /\ IF res.exc # "none"
            THEN /\ Throw(res.exc, <<"creating">> \o res.out)
                 /\ UNCHANGED app_data
            ELSE /\ app_data' = res.ret
                 /\ out' = out \o <<"creating">> \o res.out
                 /\ pc' = "L128"
                 /\ UNCHANGED exc
    /\ UNCHANGED <<app_id, configured, i, response, caught>>

\* lines 128-133 as they would be without the return on line 130 and with
\* app_data.get("id") on line 132
CheckAppData_NoReturn ==
    /\ pc = "L128"
    /\ IF app_data.kind # "dict"
       THEN /\ Throw("TypeError", <<>>)
            /\ UNCHANGED app_id
       ELSE /\ app_id' = IF HasKey(app_data, "id")
                         THEN Index(app_data, "id") ELSE JNull
            /\ out' = out \o (IF Truthy(app_data) THEN <<>>
                              ELSE <<"failed_to_create_app">>)
                         \o <<"app_created_with_id">>
            /\ pc' = "L137"
            /\ UNCHANGED exc
    /\ UNCHANGED <<app_data, configured, i, response, caught, calls, answers, http>>

\* lines 128-133: return if app_data is falsy, else app_id = app_data["id"]
CheckAppData ==
    /\ pc = "L128"
    /\ IF ~Truthy(app_data)
       THEN /\ out' = out \o <<"failed_to_create_app">>
            /\ pc' = "done"
            /\ UNCHANGED <<app_id, exc>>
       ELSE IF IndexRaises(app_data, "id") # "none"
       THEN /\ Throw(IndexRaises(app_data, "id"), <<>>)
            /\ UNCHANGED app_id
       ELSE /\ app_id' = Index(app_data, "id")
            /\ out' = out \o <<"app_created_with_id">>
            /\ pc' = "L137"
            /\ UNCHANGED exc
    /\ UNCHANGED <<app_data, configured, i, response, caught, calls, answers, http>>

\* lines 136-141 as they would be without the return on line 141
CallConfigure_NoReturn ==
    /\ pc = "L137"
    /\ \E r \in Transport :
         LET res == configure_model(dify, app_id, r) IN
         /\ calls' = Append(calls, configure_model_request(dify, app_id))
         /\ answers' = Append(answers, r.status_code)
         /\ http' = r
         /\ IF res.exc # "none"
            THEN /\ Throw(res.exc, <<"configuring">>)
                 /\ UNCHANGED configured
            ELSE /\ configured' = res.ret
                 /\ UNCHANGED exc
                 /\ pc' = "L152"
                 /\ out' = out \o
                      (IF Truthy(res.ret)
                       THEN <<"configuring", "model_configured", "testing">>
                       ELSE <<"configuring", "failed_to_configure", "testing">>)
    /\ UNCHANGED <<app_data, app_id, i, response, caught>>

\* lines 136-141: if dify.configure_model(app_id): ... else: return
CallConfigure ==
    /\ pc = "L137"
    /\ \E r \in Transport :
         LET res == configure_model(dify, app_id, r) IN
         /\ calls' = Append(calls, configure_model_request(dify, app_id))
         /\ answers' = Append(answers, r.status_code)
         /\ http' = r
         /\ IF res.exc # "none"
            THEN /\ Throw(res.exc, <<"configuring">>)
                 /\ UNCHANGED configured
            ELSE /\ configured' = res.ret
                 /\ UNCHANGED exc
                 /\ IF Truthy(res.ret)
                    THEN /\ out' = out \o <<"configuring", "model_configured", "testing">>
                         /\ pc' = "L152"
                    ELSE /\ out' = out \o <<"configuring", "failed_to_configure">>
                         /\ pc' = "done"
    /\ UNCHANGED <<app_data, app_id, i, response, caught>>

\* lines 152-155: response = dify.send_message(app_id, message)
CallSend ==
    /\ pc = "L152"
    /\ \E r \in Transport :
         LET message == test_messages[i]
             res == send_message(dify, app_id, message, "tutorial-user", r) IN
         /\ calls' = Append(calls,
                send_message_request(dify, app_id, message, "tutorial-user"))
         /\ answers' = Append(answers, r.status_code)
         /\ http' = r
         /\ IF res.exc # "none"
            THEN /\ Throw(res.exc, <<"user">> \o res.out)
                 /\ UNCHANGED response
            ELSE /\ response' = res.ret
                 /\ out' = out \o <<"user">> \o res.out
                 /\ pc' = "L157"
                 /\ UNCHANGED exc
    /\ UNCHANGED <<app_data, app_id, configured, i, caught>>

\* lines 157-160 as they would be if a message without an answer were sent
\* again instead of moving on
CheckResponse_Retry ==
    /\ pc = "L157"
    /\ IF Truthy(response) /\ InRaises(response)
       THEN /\ Throw("TypeError", <<>>)
            /\ UNCHANGED i
       ELSE IF Truthy(response) /\ In("answer", response)
                /\ IndexRaises(response, "answer") # "none"
       THEN /\ Throw(IndexRaises(response, "answer"), <<>>)
            /\ UNCHANGED i
       ELSE IF Truthy(response) /\ In("answer", response)
       THEN /\ out' = out \o <<"bot">>
            /\ i' = i + 1
            /\ pc' = IF i = Len(test_messages) THEN "L162" ELSE "L152"
            /\ UNCHANGED exc
       ELSE /\ out' = out \o <<"no_response">>
            /\ pc' = "L152"
            /\ UNCHANGED <<i, exc>>
    /\ UNCHANGED <<app_data, app_id, configured, response, caught, calls, answers, http>>

\* lines 157-160: if response and "answer" in response: print(response['answer'])
\* else: print the failure notice; then the loop moves to the next message
CheckResponse ==
    /\ pc = "L157"
    /\ IF Truthy(response) /\ InRaises(response)
       THEN /\ Throw("TypeError", <<>>)
            /\ UNCHANGED i
       ELSE IF Truthy(response) /\ In("answer", response)
                /\ IndexRaises(response, "answer") # "none"
       THEN /\ Throw(IndexRaises(response, "answer"), <<>>)
            /\ UNCHANGED i
       ELSE /\ out' = out \o
                 <<IF Truthy(response) /\ In("answer", response)
                   THEN "bot" ELSE "no_response">>
            /\ i' = i + 1
            /\ pc' = IF i = Len(test_messages) THEN "L162" ELSE "L152"
            /\ UNCHANGED exc
    /\ UNCHANGED <<app_data, app_id, configured, response, caught, calls, answers, http>>

\* lines 162-163: the completion message and the dashboard URL
Complete ==
    /\ pc = "L162"
    /\ out' = out \o <<"completed", "dashboard">>
    /\ pc' = "done"
    /\ UNCHANGED <<app_data, app_id, configured, i, response, exc, caught,
                   calls, answers, http>>

\* lines 165-166: except Exception as e: print(...)
Handler ==
    /\ pc = "L165"
    /\ caught' = caught + 1
    /\ out' = out \o <<"error_occurred">>
    /\ pc' = "done"
    /\ UNCHANGED <<app_data, app_id, configured, i, response, exc,
                   calls, answers, http>>

Next ==
    \/ CallCreate
    \/ CheckAppData
    \/ CallConfigure
    \/ CallSend
    \/ CheckResponse
    \/ Complete
    \/ Handler

Spec == Init /\ [][Next]_vars

\* main() runs on one thread and every line of it executes once reached
FairSpec == Spec /\ WF_vars(Next)

(***************************************************************************)
(* Vocabulary of the properties.                                           *)
(***************************************************************************)
IsCreateCall(c) == c.method = "POST" /\ "name" \in DOMAIN c.json
IsConfigureCall(c) == c.method = "PUT"
IsChatCall(c) == c.method = "POST" /\ "query" \in DOMAIN c.json

CreateCalls == {n \in 1..Len(calls) : IsCreateCall(calls[n])}
ConfigureCalls == {n \in 1..Len(calls) : IsConfigureCall(calls[n])}
ChatCalls == {n \in 1..Len(calls) : IsChatCall(calls[n])}

\* main() has ended, by return or through the except clause
Ended == pc = "done"

\* the exceptions that escape a client method, as opposed to those raised
\* by main's own statements
CallExceptions == {"ConnectionError", "JSONDecodeError"}

\* how many times tag was printed
Printed(tag) == Cardinality({n \in 1..Len(out) : out[n] = tag})

(***************************************************************************)
(* C1: whenever create_simple_app has returned an empty (falsy) result,    *)
(* the only call of the run is the create call: no configure call and no   *)
(* chat call is issued, and main returns right after the create step.      *)
(***************************************************************************)
C1_NoConfigureAfterEmptyCreate ==
    (app_data # Unset /\ ~Truthy(app_data)) =>
        /\ calls = <<create_simple_app_request(dify)>>
        /\ ConfigureCalls = {} /\ ChatCalls = {}
        /\ pc \in {"L128", "done"}
        /\ pc = "done" => /\ out[Len(out)] = "failed_to_create_app"
                          /\ exc = "none"

C1_Witness ==
    /\ Ended
    /\ app_data = EmptyDict
    /\ http.status_code = 404
    /\ Len(calls) = 1

(***************************************************************************)
(* C2: whenever configure_model has returned False, no chat-messages call  *)
(* has been issued, and main has returned after the configure call.        *)
(***************************************************************************)
C2_NoSendAfterFailedConfigure ==
    (configured = JBool(FALSE)) =>
        /\ ChatCalls = {}
        /\ Len(calls) = 2
        /\ Ended
        /\ response = Unset

C2_Witness ==
    /\ Ended
    /\ configured = JBool(FALSE)
    /\ http.status_code = 202
    /\ Len(calls) = 2

\* the five requests of a complete run for the application id v
FullRun(v) ==
    <<create_simple_app_request(dify), configure_model_request(dify, v)>>
      \o [n \in 1..Len(test_messages) |->
            send_message_request(dify, v, test_messages[n], "tutorial-user")]

AllAnsweredOk ==
    /\ Len(answers) >= 3
    /\ answers[1] = 201
    /\ HasKey(app_data, "id")
    /\ answers[2] = 200
    /\ \A n \in 3..Len(answers) : answers[n] = 200
    /\ exc # "JSONDecodeError"

(***************************************************************************)
(* C3: when create is answered 201 with a body holding an id, configure is *)
(* answered 200 and every chat call is answered 200 (with a JSON body,     *)
(* whatever it contains), a finished run has issued exactly the create     *)
(* call, the configure call and the three chat calls, in that order, the   *)
(* n-th chat call carrying the n-th prompt and conversation_id "".         *)
(* Violated by a chat answer whose body is a truthy JSON value that is not *)
(* an object: lines 157-158 raise TypeError and the loop is left.          *)
(***************************************************************************)
C3_FiveCallsWhenAllAnsweredOk ==
    (Ended /\ AllAnsweredOk) =>
        /\ calls = FullRun(app_id)
        /\ \A n \in ChatCalls : calls[n].json.conversation_id = ""

(***************************************************************************)
(* C4: after the create call, if the response status is 201 app_data is    *)
(* the decoded response body, unchanged; if the status is anything else    *)
(* app_data is the empty dict and the diagnostic was printed.  Exactly one *)
(* create request is issued in either case, and never a second one.        *)
(***************************************************************************)
C4_CreateReturnsBodyIff201 ==
    /\ Cardinality(CreateCalls) <= 1
    /\ (Len(calls) = 1 /\ ~http.raised) =>
         /\ calls = <<create_simple_app_request(dify)>>
         /\ (http.status_code = 201 /\ http.json # Undecodable) =>
              /\ app_data = http.json
              /\ exc \notin CallExceptions
              /\ Printed("error_creating_app") = 0
         /\ http.status_code # 201 =>
              /\ app_data = EmptyDict
              /\ exc \notin CallExceptions
              /\ Printed("error_creating_app") = 1

C4_Witness ==
    /\ Len(calls) = 1
    /\ http.status_code = 201
    /\ http.json = JList(<<"ok">>)
    /\ app_data = http.json

(***************************************************************************)
(* C5: after the configure call, configure_model has returned True if and  *)
(* only if the response status is exactly 200; for every other status,     *)
(* 201 and the other 2xx codes included, it has returned False.            *)
(***************************************************************************)
C5_ConfigureTrueIff200 ==
    (Len(calls) = 2 /\ ~http.raised) =>
        /\ configured \in {JBool(TRUE), JBool(FALSE)}
        /\ configured = JBool(TRUE) <=> http.status_code = 200
        /\ (http.status_code > 200 /\ http.status_code < 300)
              => configured = JBool(FALSE)

C5_Witness ==
    /\ Len(calls) = 2
    /\ http.status_code = 201
    /\ configured = JBool(FALSE)

(***************************************************************************)
(* C6: after a chat call, if the response status is 200 main's response is *)
(* the decoded response body; for every other status it is the empty dict, *)
(* whatever the body, and the diagnostic was printed once per such answer. *)
(***************************************************************************)
C6_SendReturnsBodyIff200 ==
    /\ Printed("error_sending_message") =
         Cardinality({n \in ChatCalls : answers[n] \notin {0, 200}})
    /\ (Len(calls) >= 3 /\ ~http.raised) =>
         /\ (http.status_code = 200 /\ http.json # Undecodable) =>
              response = http.json
         /\ http.status_code # 200 => response = EmptyDict

C6_Witness ==
    /\ Len(calls) = 4
    /\ http.status_code = 201
    /\ http.json = JDict({Member("answer", JStr("ok"))})
    /\ response = EmptyDict

\* an exception of the try block ends in the except clause, which runs once
ExceptionsContained ==
    /\ pc # "propagated"
    /\ caught <= 1
    /\ exc # "none" => pc \in {"L165", "done"}
    /\ (Ended /\ exc # "none") => (caught = 1 /\ out[Len(out)] = "error_occurred")
    /\ exc = "none" => caught = 0

(***************************************************************************)
(* C7: whatever the transport does, main() ends normally: an exception     *)
(* raised in the try block reaches the except clause, which runs at most   *)
(* once; no exception leaves main; and once an exception has been raised   *)
(* no further HTTP call is issued.                                         *)
(***************************************************************************)
C7_ExceptionsCaughtOnceAndRunEnds ==
    /\ []ExceptionsContained
    /\ [][exc # "none" => calls' = calls]_vars
    /\ <>Ended

C7_Witness ==
    /\ Ended
    /\ exc = "ConnectionError"
    /\ caught = 1
    /\ Len(calls) = 4
    /\ http.raised

\* the position of main() in the linear sequence of its steps
Rank ==
    CASE pc = "L126" -> 0
      [] pc = "L128" -> 1
      [] pc = "L137" -> 2
      [] pc = "L152" -> 1 + 2 * i
      [] pc = "L157" -> 2 + 2 * i
      [] pc = "L162" -> 3 + 2 * Len(test_messages)
      [] pc = "L165" -> 4 + 2 * Len(test_messages)
      [] OTHER       -> 5 + 2 * Len(test_messages)

\* the calls issued so far are a prefix of create, configure, chat x3
ProgramOrder ==
    /\ Len(calls) <= 2 + Len(test_messages)
    /\ CreateCalls = {n \in 1..Len(calls) : n = 1}
    /\ ConfigureCalls = {n \in 1..Len(calls) : n = 2}
    /\ ChatCalls = {n \in 1..Len(calls) : n >= 3}
    /\ Cardinality(ChatCalls) <= 3
    /\ ConfigureCalls # {} =>
         (answers[1] # 0 /\ app_data # Unset)
    /\ ChatCalls # {} =>
         (answers[2] # 0 /\ configured = JBool(TRUE))
    /\ \A n \in ChatCalls : n < Len(calls) => answers[n] # 0

(***************************************************************************)
(* C8: calls are issued in program order and never retried: the calls of a *)
(* run are a prefix of create, configure, chat, chat, chat; a configure    *)
(* call follows a create call that returned, a chat call follows a         *)
(* configure call that returned; and every step moves main() strictly      *)
(* forward along Start, AppCreated?, ModelConfigured?, the three messages, *)
(* Done.                                                                   *)
(***************************************************************************)
C8_ProgramOrderNoRetry ==
    /\ []ProgramOrder
    /\ [][/\ Rank' > Rank
          /\ Len(calls') \in {Len(calls), Len(calls) + 1}
          /\ SubSeq(calls', 1, Len(calls)) = calls]_vars

C8_Witness ==
    /\ Ended
    /\ Len(calls) = 5
    /\ answers[3] = 201
    /\ answers[4] = 404
    /\ answers[5] = 0

(***************************************************************************)
(* C9: once create and configure have succeeded and no client call raises, *)
(* whatever the three chat calls are answered with, the run issues all     *)
(* three chat calls with the three prompts in order and prints the         *)
(* completion message.  Violated by a 200 answer whose body is a truthy    *)
(* JSON value that is not an object (see C3).                              *)
(***************************************************************************)
C9_LoopSurvivesFailedChats ==
    (Ended /\ configured = JBool(TRUE) /\ exc \notin CallExceptions) =>
        /\ calls = FullRun(app_id)
        /\ Printed("completed") = 1

(***************************************************************************)
(* What does hold of the message loop: when create and configure have      *)
(* succeeded and no exception is raised in the try block, all three chat   *)
(* calls are issued, each prompt is followed by the answer or the failure  *)
(* notice, and the completion message is printed, whatever the statuses.   *)
(***************************************************************************)
LoopSurvivesWithoutException ==
    (Ended /\ configured = JBool(TRUE) /\ exc = "none") =>
        /\ calls = FullRun(app_id)
        /\ Printed("completed") = 1
        /\ Printed("bot") + Printed("no_response") = Len(test_messages)

\* the create response is the one the run needs to go on
CreateAccepted(r) ==
    ~r.raised /\ r.status_code = 201 /\ HasKey(r.json, "id")

\* the URL of an endpoint of the application whose identifier is v
AppUrl(v, endpoint) == "http://localhost:5001/v1/apps/" \o Format(v) \o endpoint

(***************************************************************************)
(* C10: a configure call is issued exactly when the create response had    *)
(* status 201 and a decoded body that is an object holding "id"; a 201     *)
(* with an empty decoded body makes main return after the failure notice;  *)
(* a 201 with a non-empty body without "id" ends the run in the except     *)
(* clause; and every configure or chat call carries the "id" of the create *)
(* response.                                                               *)
(***************************************************************************)
C10_ConfigureIffCreatedWithId ==
    /\ Len(calls) >= 2 =>
         /\ answers[1] = 201
         /\ HasKey(app_data, "id")
         /\ app_id = Index(app_data, "id")
         /\ calls[2].url = AppUrl(Index(app_data, "id"), "/model-config")
         /\ \A n \in 3..Len(calls) :
              calls[n].url = AppUrl(Index(app_data, "id"), "/chat-messages")
    /\ (Len(calls) = 1 /\ pc \in {"L165", "done"}) =>
         /\ ~CreateAccepted(http)
         /\ (~http.raised /\ http.status_code = 201 /\ http.json # Undecodable) =>
              IF Truthy(http.json)
              THEN /\ exc \in {"KeyError", "TypeError"}
                   /\ pc \in {"L165", "done"}
              ELSE /\ exc = "none"
                   /\ Ended
                   /\ out[Len(out)] = "failed_to_create_app"

C10_Witness ==
    /\ Len(calls) = 4
    /\ app_id = JNum("7")
    /\ calls[4].url = "http://localhost:5001/v1/apps/7/chat-messages"

=============================================================================
